---- MODULE Spec2Model ----
(***************************************************************************)
(* Model of the three Express routers of the backend: reservations         *)
(* (reservation.js), creneaux d'expedition and colis (colis.js).           *)
(*                                                                         *)
(* The relational store is modelled by what the statements of the source   *)
(* do to it: three tables keyed by a serial id.  No constraint of the      *)
(* schema is assumed beyond what the handlers themselves check, because    *)
(* the schema is not part of the source.  Every SQL statement is atomic;   *)
(* a handler that awaits two statements is split at the await, so that     *)
(* other requests can run in between.                                      *)
(***************************************************************************)
EXTENDS Integers, Sequences, FiniteSets, Bags, TLC

\* ------------------------------------------------------------------ bounds
MaxReservationId == 2   \* reservation ids handed out by the serial column
MaxCreneauId == 1       \* slot ids handed out
MaxColisId == 2         \* package ids handed out
MaxReq == 2             \* requests that can be in flight at the same time
MaxRows == 1            \* rows in the whole store in the PATCH specification

\* ------------------------------------------------- JavaScript value helpers
\* A payload is a record over the keys the model follows; a key of the JSON
\* body is either missing (None) or present with a value (Some(v)).
None == <<>>
Some(v) == <<v>>

\* Object.keys(updates): the keys present in the body.
Keys(p) == {k \in DOMAIN p : p[k] # None}

\* !x for a number: undefined and 0 are falsy.
TruthyNum(v) == v # None /\ v[1] # 0
\* !x for a string: undefined and "" are falsy.
TruthyStr(v) == v # None /\ v[1] # ""
\* x <= 0: false for undefined (NaN comparison).
LeqZero(v) == v # None /\ v[1] <= 0

\* ------------------------------------------------------------------- state
VARIABLES
  reservations,       \* table reservations: id -> row
  creneaux,           \* table creneaux_expedition: id -> row
  colis,              \* table colis: id -> row
  nextReservationId,  \* serial of reservations.id
  nextCreneauId,      \* serial of creneaux_expedition.id
  nextColisId,        \* serial of colis.id
  inflight,           \* the bag of handlers suspended at an await
  response            \* the last response sent

vars == <<reservations, creneaux, colis, nextReservationId, nextCreneauId,
          nextColisId, inflight, response>>

\* No request is suspended between two statements.
Quiet == inflight = EmptyBag

\* A handler reaches an await with statements left to run: k is what it
\* still holds (its local variables).  At most MaxReq handlers are suspended.
Suspend(k) ==
  /\ BagCardinality(inflight) < MaxReq
  /\ inflight' = inflight (+) SetToBag({k})

\* The suspended handler k runs on to its end.
Resume(k) ==
  /\ BagIn(k, inflight)
  /\ inflight' = inflight (-) SetToBag({k})

Init ==
  /\ reservations = <<>>
  /\ creneaux = <<>>
  /\ colis = <<>>
  /\ nextReservationId = 1
  /\ nextCreneauId = 1
  /\ nextColisId = 1
  /\ inflight = EmptyBag
  /\ response = [op |-> "none", status |-> 0, error |-> "", data |-> <<>>,
                 pagination |-> None]

\* res.status(s).json(...): data holds the rows of the body, error its message.
\* pagination is set by the list handlers only.
Reply(op, status, error, data) ==
  response' = [op |-> op, status |-> status, error |-> error, data |-> data,
               pagination |-> None]

\* UPDATE t SET f = $i ... : the columns in fields take the payload's values.
\* A nullable column is stored as None (NULL) or Some(v).
NullableCols == {"creneau_id", "type_transport"}
SetCols(row, p, fields) ==
  [f \in DOMAIN row |->
     IF f \in fields
       THEN (IF f \in NullableCols THEN p[f] ELSE p[f][1])
       ELSE row[f]]

\* ============================================================ reservations
\* destination stands for the seven required text columns (destination, nom,
\* prenom, email, telephone, lieu_depart, date_depart); inconnu is a key that
\* is in no allowed-field list.
validClasses == {"Economique", "Affaires", "Premiere"}
ReservationAllowedFields == {"destination", "nombre_passagers", "classe"}

ReservationMissing(p) ==
  \/ ~TruthyStr(p.destination)
  \/ ~TruthyNum(p.nombre_passagers)
  \/ ~TruthyStr(p.classe)

\* POST /api/reservations
CreateReservation(p) ==
  /\ UNCHANGED <<creneaux, colis, nextCreneauId, nextColisId, inflight>>
  /\ IF ReservationMissing(p)
       THEN /\ Reply("POST reservations", 400, "Champs obligatoires manquants", <<>>)
            /\ UNCHANGED <<reservations, nextReservationId>>
     ELSE IF p.classe[1] \notin validClasses
       THEN /\ Reply("POST reservations", 400, "Classe invalide", <<>>)
            /\ UNCHANGED <<reservations, nextReservationId>>
     ELSE IF p.nombre_passagers[1] <= 0
       THEN /\ Reply("POST reservations", 400, "Le nombre de passagers doit etre superieur a 0", <<>>)
            /\ UNCHANGED <<reservations, nextReservationId>>
     ELSE /\ nextReservationId <= MaxReservationId
          /\ LET row == [id |-> nextReservationId,
                         destination |-> p.destination[1],
                         nombre_passagers |-> p.nombre_passagers[1],
                         classe |-> p.classe[1]]
             IN /\ reservations' = reservations @@ (nextReservationId :> row)
                /\ Reply("POST reservations", 201, "", <<row>>)
          /\ nextReservationId' = nextReservationId + 1

\* PUT /api/reservations/:id
PutReservation(idOk, id, p) ==
  /\ UNCHANGED <<creneaux, colis, nextReservationId, nextCreneauId, nextColisId,
                 inflight>>
  /\ IF ~idOk
       THEN /\ Reply("PUT reservations", 400, "ID invalide", <<>>)
            /\ UNCHANGED reservations
     ELSE IF ReservationMissing(p)
       THEN /\ Reply("PUT reservations", 400, "Champ obligatoire manquant", <<>>)
            /\ UNCHANGED reservations
     ELSE IF p.classe[1] \notin validClasses
       THEN /\ Reply("PUT reservations", 400, "Classe invalide", <<>>)
            /\ UNCHANGED reservations
     ELSE IF p.nombre_passagers[1] <= 0
       THEN /\ Reply("PUT reservations", 400, "Le nombre de passagers doit etre superieur a 0", <<>>)
            /\ UNCHANGED reservations
     ELSE IF id \notin DOMAIN reservations
       THEN /\ Reply("PUT reservations", 404, "Reservation non trouvee", <<>>)
            /\ UNCHANGED reservations
     ELSE LET row == SetCols(reservations[id], p, ReservationAllowedFields)
          IN /\ reservations' = [reservations EXCEPT ![id] = row]
             /\ Reply("PUT reservations", 200, "", <<row>>)

\* The validation of PATCH /api/reservations/:id: the error it answers with,
\* "" when the payload passes.
PatchReservationError(p) ==
  IF Keys(p) = {} THEN "Aucun champ a modifier"
  ELSE IF Keys(p) \cap ReservationAllowedFields = {} THEN "Aucun champ valide a modifier"
  ELSE IF TruthyStr(p.classe) /\ p.classe[1] \notin validClasses THEN "Classe invalide"
  ELSE IF TruthyNum(p.nombre_passagers) /\ p.nombre_passagers[1] <= 0
    THEN "Le nombre de passagers doit etre superieur a 0"
  ELSE ""

\* PATCH /api/reservations/:id
PatchReservation(idOk, id, p) ==
  /\ UNCHANGED <<creneaux, colis, nextReservationId, nextCreneauId, nextColisId,
                 inflight>>
  /\ IF ~idOk
       THEN /\ Reply("PATCH reservations", 400, "ID invalide", <<>>)
            /\ UNCHANGED reservations
     ELSE IF PatchReservationError(p) # ""
       THEN /\ Reply("PATCH reservations", 400, PatchReservationError(p), <<>>)
            /\ UNCHANGED reservations
     ELSE IF id \notin DOMAIN reservations
       THEN /\ Reply("PATCH reservations", 404, "Reservation non trouvee", <<>>)
            /\ UNCHANGED reservations
     ELSE LET fieldsToUpdate == Keys(p) \cap ReservationAllowedFields
              row == SetCols(reservations[id], p, fieldsToUpdate)
          IN /\ reservations' = [reservations EXCEPT ![id] = row]
             /\ Reply("PATCH reservations", 200, "", <<row>>)

\* DELETE /api/reservations/:id
DeleteReservation(idOk, id) ==
  /\ UNCHANGED <<creneaux, colis, nextReservationId, nextCreneauId, nextColisId,
                 inflight>>
  /\ IF ~idOk
       THEN /\ Reply("DELETE reservations", 400, "ID invalide", <<>>)
            /\ UNCHANGED reservations
     ELSE IF id \notin DOMAIN reservations
       THEN /\ Reply("DELETE reservations", 404, "Reservation non trouvee", <<>>)
            /\ UNCHANGED reservations
     ELSE /\ reservations' = [i \in DOMAIN reservations \ {id} |-> reservations[i]]
          /\ Reply("DELETE reservations", 200, "", <<reservations[id]>>)

\* ================================================== creneaux d'expedition
\* lieu_depart stands for the four required text columns (heure_depart,
\* lieu_depart, destination, date_expedition).
validTransportTypes == {"standard", "express", "prioritaire"}
CreneauAllowedFields ==
  {"lieu_depart", "capacite_max", "frais_par_kg", "poids_max_colis", "type_transport"}

CreneauMissing(p) ==
  \/ ~TruthyStr(p.lieu_depart)
  \/ ~TruthyNum(p.capacite_max)
  \/ ~TruthyNum(p.frais_par_kg)
  \/ ~TruthyNum(p.poids_max_colis)

\* The validation shared by POST and PUT /api/creneaux: "" when it passes.
CreneauError(p) ==
  IF CreneauMissing(p) THEN "Champ obligatoire manquant"
  ELSE IF TruthyStr(p.type_transport) /\ p.type_transport[1] \notin validTransportTypes
    THEN "Type de transport invalide"
  ELSE IF LeqZero(p.capacite_max) \/ LeqZero(p.frais_par_kg) \/ LeqZero(p.poids_max_colis)
    THEN "La capacite, les frais et le poids maximum doivent etre superieurs a 0"
  ELSE ""

\* POST /api/creneaux
CreateCreneau(p) ==
  /\ UNCHANGED <<reservations, colis, nextReservationId, nextColisId, inflight>>
  /\ IF CreneauError(p) # ""
       THEN /\ Reply("POST creneaux", 400, CreneauError(p), <<>>)
            /\ UNCHANGED <<creneaux, nextCreneauId>>
     ELSE /\ nextCreneauId <= MaxCreneauId
          /\ LET row == [id |-> nextCreneauId,
                         lieu_depart |-> p.lieu_depart[1],
                         capacite_max |-> p.capacite_max[1],
                         frais_par_kg |-> p.frais_par_kg[1],
                         poids_max_colis |-> p.poids_max_colis[1],
                         type_transport |->
                           IF TruthyStr(p.type_transport) THEN p.type_transport
                                                          ELSE Some("standard")]
             IN /\ creneaux' = creneaux @@ (nextCreneauId :> row)
                /\ Reply("POST creneaux", 201, "", <<row>>)
          /\ nextCreneauId' = nextCreneauId + 1

\* PUT /api/creneaux/:id
PutCreneau(idOk, id, p) ==
  /\ UNCHANGED <<reservations, colis, nextReservationId, nextCreneauId, nextColisId,
                 inflight>>
  /\ IF ~idOk
       THEN /\ Reply("PUT creneaux", 400, "ID invalide", <<>>)
            /\ UNCHANGED creneaux
     ELSE IF CreneauError(p) # ""
       THEN /\ Reply("PUT creneaux", 400, CreneauError(p), <<>>)
            /\ UNCHANGED creneaux
     ELSE IF id \notin DOMAIN creneaux
       THEN /\ Reply("PUT creneaux", 404, "Creneau non trouve", <<>>)
            /\ UNCHANGED creneaux
     ELSE LET row == SetCols(creneaux[id], p, CreneauAllowedFields)
          IN /\ creneaux' = [creneaux EXCEPT ![id] = row]
             /\ Reply("PUT creneaux", 200, "", <<row>>)

\* The validation of PATCH /api/creneaux/:id: "" when the payload passes.
PatchCreneauError(p) ==
  IF Keys(p) = {} THEN "Aucun champ a modifier"
  ELSE IF Keys(p) \cap CreneauAllowedFields = {} THEN "Aucun champ valide a modifier"
  ELSE IF TruthyStr(p.type_transport) /\ p.type_transport[1] \notin validTransportTypes
    THEN "Type de transport invalide"
  ELSE IF \/ (TruthyNum(p.capacite_max) /\ p.capacite_max[1] <= 0)
          \/ (TruthyNum(p.frais_par_kg) /\ p.frais_par_kg[1] <= 0)
          \/ (TruthyNum(p.poids_max_colis) /\ p.poids_max_colis[1] <= 0)
    THEN "La capacite, les frais et le poids maximum doivent etre superieurs a 0"
  ELSE ""

\* PATCH /api/creneaux/:id
PatchCreneau(idOk, id, p) ==
  /\ UNCHANGED <<reservations, colis, nextReservationId, nextCreneauId, nextColisId,
                 inflight>>
  /\ IF ~idOk
       THEN /\ Reply("PATCH creneaux", 400, "ID invalide", <<>>)
            /\ UNCHANGED creneaux
     ELSE IF PatchCreneauError(p) # ""
       THEN /\ Reply("PATCH creneaux", 400, PatchCreneauError(p), <<>>)
            /\ UNCHANGED creneaux
     ELSE IF id \notin DOMAIN creneaux
       THEN /\ Reply("PATCH creneaux", 404, "Creneau non trouve", <<>>)
            /\ UNCHANGED creneaux
     ELSE LET fieldsToUpdate == Keys(p) \cap CreneauAllowedFields
              row == SetCols(creneaux[id], p, fieldsToUpdate)
          IN /\ creneaux' = [creneaux EXCEPT ![id] = row]
             /\ Reply("PATCH creneaux", 200, "", <<row>>)

\* Mutant of the join: an inner join, which drops the slots without package.
InnerJoinColis(id) ==
  IF id \notin DOMAIN creneaux THEN {}
  ELSE {[ce |-> id, c |-> Some(i)] :
          i \in {j \in DOMAIN colis : colis[j].creneau_id = Some(id)}}

\* FROM creneaux_expedition ce LEFT JOIN colis c ON ce.id = c.creneau_id
\* WHERE ce.id = id: one joined row per matching package, and one row with a
\* NULL package when no package matches.  c is the package's id or NULL.
LeftJoinColis(id) ==
  LET matching == {i \in DOMAIN colis : colis[i].creneau_id = Some(id)}
  IN IF id \notin DOMAIN creneaux THEN {}
     ELSE IF matching = {} THEN {[ce |-> id, c |-> None]}
     ELSE {[ce |-> id, c |-> Some(i)] : i \in matching}

\* COUNT(c.id) over the joined rows of one group: NULLs are not counted.
CountColisId(joined) == Cardinality({j \in joined : j.c # None})

\* SELECT ce.*, COUNT(c.id) as nombre_colis_actuels,
\*        (ce.capacite_max - COUNT(c.id)) as places_restantes ... GROUP BY ce.id
\* is one result row per group of joined rows.
CreneauAvecUsage(id) ==
  LET n == CountColisId(LeftJoinColis(id))
  IN creneaux[id] @@ [nombre_colis_actuels |-> n,
                      places_restantes |-> creneaux[id].capacite_max - n]

\* The slots that have a group in the join: those with a joined row.
CreneauxJoints == {id \in DOMAIN creneaux : LeftJoinColis(id) # {}}

\* GET /api/creneaux/:id
GetCreneau(idOk, id) ==
  /\ UNCHANGED <<reservations, creneaux, colis, nextReservationId, nextCreneauId,
                 nextColisId, inflight>>
  /\ IF ~idOk THEN Reply("GET creneaux/:id", 400, "ID invalide", <<>>)
     ELSE IF id \notin CreneauxJoints
       THEN Reply("GET creneaux/:id", 404, "Creneau non trouve", <<>>)
     ELSE Reply("GET creneaux/:id", 200, "", <<CreneauAvecUsage(id)>>)

\* ----------------------------------------------------------- pagination
MaxLimit == 100
DefaultPage == 1
DefaultLimit == 10
Max(a, b) == IF a >= b THEN a ELSE b
Min(a, b) == IF a <= b THEN a ELSE b
\* A JavaScript number that may be NaN: NaN is <<>>, the integer n is <<n>>.
NaN == <<>>
Num(n) == <<n>>

\* Strings that reach parseInt are sequences of one-character strings.
Digits == <<"0", "1", "2", "3", "4", "5", "6", "7", "8", "9">>
IsDigit(c) == \E i \in 1..10 : Digits[i] = c
DigitVal(c) == (CHOOSE i \in 1..10 : Digits[i] = c) - 1
IsSpace(c) == c = " "

RECURSIVE TrimStart(_)
TrimStart(s) ==
  IF s # <<>> /\ IsSpace(Head(s)) THEN TrimStart(Tail(s)) ELSE s

\* The longest prefix of s made of decimal digits.
RECURSIVE DigitsPrefix(_)
DigitsPrefix(s) ==
  IF s # <<>> /\ IsDigit(Head(s)) THEN <<Head(s)>> \o DigitsPrefix(Tail(s)) ELSE <<>>

RECURSIVE DigitsValue(_, _)
DigitsValue(d, acc) ==
  IF d = <<>> THEN acc ELSE DigitsValue(Tail(d), 10 * acc + DigitVal(Head(d)))

\* parseInt(s): leading white space is skipped, one sign is read, then the
\* longest run of digits; what follows is ignored; no digit gives NaN.
ParseInt(s) ==
  LET t == TrimStart(s)
      neg == t # <<>> /\ Head(t) = "-"
      u == IF t # <<>> /\ Head(t) \in {"-", "+"} THEN Tail(t) ELSE t
      d == DigitsPrefix(u)
  IN IF d = <<>> THEN NaN
     ELSE Num(IF neg THEN 0 - DigitsValue(d, 0) ELSE DigitsValue(d, 0))

\* String(n) of a natural number.
RECURSIVE StringOf(_)
StringOf(n) ==
  IF n < 10 THEN <<Digits[n + 1]>> ELSE StringOf(n \div 10) \o <<Digits[(n % 10) + 1]>>

\* Math.max and Math.min answer NaN as soon as one argument is NaN.
MathMax(a, b) == IF a = NaN \/ b = NaN THEN NaN ELSE Num(Max(a[1], b[1]))
MathMin(a, b) == IF a = NaN \/ b = NaN THEN NaN ELSE Num(Min(a[1], b[1]))

\* const { page = 1, limit = 10 } = req.query: the default applies to an
\* absent key only; parseInt(1) reads the number as the string "1".
PageParam(page) == IF page = None THEN StringOf(DefaultPage) ELSE page[1]
LimitParam(limit) == IF limit = None THEN StringOf(DefaultLimit) ELSE limit[1]
PageNum(page) == MathMax(Num(1), ParseInt(PageParam(page)))
LimitNum(limit) == MathMin(Num(MaxLimit), MathMax(Num(1), ParseInt(LimitParam(limit))))
Offset(page, limit) ==
  IF PageNum(page) = NaN \/ LimitNum(limit) = NaN THEN NaN
  ELSE Num((PageNum(page)[1] - 1) * LimitNum(limit)[1])
\* Math.ceil(total / limitNum)
TotalPages(total, limitNum) == (total + limitNum - 1) \div limitNum

\* ORDER BY id DESC (the default sort column and order)
RECURSIVE OrderByIdDesc(_)
OrderByIdDesc(ids) ==
  IF ids = {} THEN <<>>
  ELSE LET m == CHOOSE x \in ids : \A y \in ids : y <= x
       IN <<m>> \o OrderByIdDesc(ids \ {m})

\* LIMIT limitNum OFFSET offset
LimitOffset(rows, limitNum, offset) ==
  SubSeq(rows, offset + 1, Min(Len(rows), offset + limitNum))

\* The page query of GET /api/creneaux.
CreneauxPage(limitNum, offset) ==
  LET ids == LimitOffset(OrderByIdDesc(CreneauxJoints), limitNum, offset)
  IN [i \in 1..Len(ids) |-> CreneauAvecUsage(ids[i])]

\* SELECT COUNT(*) FROM creneaux_expedition
CreneauxTotal == Cardinality(DOMAIN creneaux)

\* The global error handler of server.js answers a rejected statement.
ErreurInterne == "Erreur interne du serveur"

\* GET /api/creneaux: Promise.all sends the page query and the count query
\* together; the store runs them one after the other, in either order (first
\* names the one run first), and other statements may run in between.
ListCreneauxStart(page, limit, first) ==
  /\ UNCHANGED <<reservations, creneaux, colis, nextReservationId, nextCreneauId,
                 nextColisId>>
  /\ IF Offset(page, limit) = NaN
       THEN \* LIMIT NaN OFFSET NaN: the statement fails, the error handler answers
            /\ Reply("GET creneaux", 500, ErreurInterne, <<>>)
            /\ UNCHANGED inflight
     ELSE /\ Suspend([op |-> "listCreneaux", pageNum |-> PageNum(page)[1],
                       limitNum |-> LimitNum(limit)[1],
                       offset |-> Offset(page, limit)[1],
                       rows |-> IF first = "rows"
                                  THEN Some(CreneauxPage(LimitNum(limit)[1],
                                                         Offset(page, limit)[1]))
                                  ELSE None,
                       total |-> IF first = "count" THEN Some(CreneauxTotal) ELSE None])
          /\ UNCHANGED response

ListCreneauxEnd(q) ==
  /\ q.op = "listCreneaux"
  /\ Resume(q)
  /\ LET rows == IF q.rows = None
                   THEN CreneauxPage(q.limitNum, q.offset)
                   ELSE q.rows[1]
         total == IF q.total = None THEN CreneauxTotal ELSE q.total[1]
         totalPages == TotalPages(total, q.limitNum)
     IN response' = [op |-> "GET creneaux", status |-> 200, error |-> "",
                     data |-> rows,
                     pagination |-> Some([page |-> q.pageNum, limit |-> q.limitNum,
                                          total |-> total, totalPages |-> totalPages,
                                          hasNext |-> q.pageNum < totalPages,
                                          hasPrev |-> q.pageNum > 1])]
  /\ UNCHANGED <<reservations, creneaux, colis, nextReservationId, nextCreneauId,
                 nextColisId>>

\* The pagination block of a list answer.
Pagination(pageNum, limitNum, total) ==
  Some([page |-> pageNum, limit |-> limitNum, total |-> total,
        totalPages |-> TotalPages(total, limitNum),
        hasNext |-> pageNum < TotalPages(total, limitNum),
        hasPrev |-> pageNum > 1])

\* The page query of GET /api/reservations (no search, default sort).
ReservationsPage(limitNum, offset) ==
  LET ids == LimitOffset(OrderByIdDesc(DOMAIN reservations), limitNum, offset)
  IN [i \in 1..Len(ids) |-> reservations[ids[i]]]

\* SELECT COUNT(*) FROM reservations
ReservationsTotal == Cardinality(DOMAIN reservations)

\* GET /api/reservations, up to the await of Promise.all.
ListReservationsStart(page, limit, first) ==
  /\ UNCHANGED <<reservations, creneaux, colis, nextReservationId, nextCreneauId,
                 nextColisId>>
  /\ IF Offset(page, limit) = NaN
       THEN /\ Reply("GET reservations", 500, ErreurInterne, <<>>)
            /\ UNCHANGED inflight
     ELSE /\ Suspend([op |-> "listReservations", pageNum |-> PageNum(page)[1],
                       limitNum |-> LimitNum(limit)[1],
                       offset |-> Offset(page, limit)[1],
                       rows |-> IF first = "rows"
                                  THEN Some(ReservationsPage(LimitNum(limit)[1],
                                                             Offset(page, limit)[1]))
                                  ELSE None,
                       total |-> IF first = "count" THEN Some(ReservationsTotal)
                                 ELSE None])
          /\ UNCHANGED response

\* GET /api/reservations, from the await on.
ListReservationsEnd(q) ==
  /\ q.op = "listReservations"
  /\ Resume(q)
  /\ LET rows == IF q.rows = None THEN ReservationsPage(q.limitNum, q.offset)
                 ELSE q.rows[1]
         total == IF q.total = None THEN ReservationsTotal ELSE q.total[1]
     IN response' = [op |-> "GET reservations", status |-> 200, error |-> "",
                     data |-> rows,
                     pagination |-> Pagination(q.pageNum, q.limitNum, total)]
  /\ UNCHANGED <<reservations, creneaux, colis, nextReservationId, nextCreneauId,
                 nextColisId>>

\* A text parameter compared with the integer column id: the store reads it as
\* an integer when it is an optional sign followed by digits only (leading
\* white space aside) and fails the statement otherwise.
PgInteger(s) ==
  LET t == TrimStart(s)
      neg == t # <<>> /\ Head(t) = "-"
      u == IF t # <<>> /\ Head(t) \in {"-", "+"} THEN Tail(t) ELSE t
      d == DigitsPrefix(u)
  IN IF d = <<>> \/ Len(d) # Len(u) THEN NaN
     ELSE Num(IF neg THEN 0 - DigitsValue(d, 0) ELSE DigitsValue(d, 0))

\* ids.filter(id => !isNaN(parseInt(id))): the entries themselves are kept.
RECURSIVE ValidIds(_)
ValidIds(ids) ==
  IF ids = <<>> THEN <<>>
  ELSE (IF ParseInt(Head(ids)) # NaN THEN <<Head(ids)>> ELSE <<>>) \o ValidIds(Tail(ids))

\* DELETE /api/reservations with { ids } in the body: ids is absent or an array
\* of entries, each written as the string parseInt and the store read.
DeleteManyReservations(ids) ==
  /\ UNCHANGED <<creneaux, colis, nextReservationId, nextCreneauId, nextColisId,
                 inflight>>
  /\ IF ids = None \/ ids[1] = <<>>
       THEN /\ Reply("DELETE reservations/", 400, "Liste d'IDs requise", <<>>)
            /\ UNCHANGED reservations
     ELSE LET validIds == ValidIds(ids[1])
              asInt == [k \in 1..Len(validIds) |-> PgInteger(validIds[k])]
              hit == {i \in DOMAIN reservations :
                        \E k \in 1..Len(validIds) : asInt[k] = Num(i)}
          IN IF validIds = <<>>
               THEN /\ Reply("DELETE reservations/", 400, "Aucun ID valide fourni", <<>>)
                    /\ UNCHANGED reservations
             ELSE IF \E k \in 1..Len(validIds) : asInt[k] = NaN
               THEN \* DELETE ... WHERE id IN ($1, ...) fails on the parameter
                    /\ Reply("DELETE reservations/", 500, ErreurInterne, <<>>)
                    /\ UNCHANGED reservations
             ELSE /\ reservations' =
                       [i \in DOMAIN reservations \ hit |-> reservations[i]]
                  /\ Reply("DELETE reservations/", 200, "",
                           [k \in 1..Cardinality(hit) |->
                              reservations[OrderByIdDesc(hit)[k]]])

\* SELECT c.*, ce.lieu_depart, ... FROM colis c LEFT JOIN creneaux_expedition ce
\* ON c.creneau_id = ce.id: the package row with the columns of its slot,
\* NULL when it has none.
ColisAvecCreneau(id) ==
  LET ref == colis[id].creneau_id
  IN colis[id] @@
       [lieu_depart |-> IF ref # None /\ ref[1] \in DOMAIN creneaux
                          THEN Some(creneaux[ref[1]].lieu_depart) ELSE None]

\* The page query of GET /api/colis (no search, no statut filter, default sort).
ColisPage(limitNum, offset) ==
  LET ids == LimitOffset(OrderByIdDesc(DOMAIN colis), limitNum, offset)
  IN [i \in 1..Len(ids) |-> ColisAvecCreneau(ids[i])]

\* SELECT COUNT(*) FROM colis c
ColisTotal == Cardinality(DOMAIN colis)

\* GET /api/colis, up to the await of Promise.all.
ListColisStart(page, limit, first) ==
  /\ UNCHANGED <<reservations, creneaux, colis, nextReservationId, nextCreneauId,
                 nextColisId>>
  /\ IF Offset(page, limit) = NaN
       THEN /\ Reply("GET colis", 500, ErreurInterne, <<>>)
            /\ UNCHANGED inflight
     ELSE /\ Suspend([op |-> "listColis", pageNum |-> PageNum(page)[1],
                       limitNum |-> LimitNum(limit)[1],
                       offset |-> Offset(page, limit)[1],
                       rows |-> IF first = "rows"
                                  THEN Some(ColisPage(LimitNum(limit)[1],
                                                      Offset(page, limit)[1]))
                                  ELSE None,
                       total |-> IF first = "count" THEN Some(ColisTotal) ELSE None])
          /\ UNCHANGED response

\* GET /api/colis, from the await on.
ListColisEnd(q) ==
  /\ q.op = "listColis"
  /\ Resume(q)
  /\ LET rows == IF q.rows = None THEN ColisPage(q.limitNum, q.offset) ELSE q.rows[1]
         total == IF q.total = None THEN ColisTotal ELSE q.total[1]
     IN response' = [op |-> "GET colis", status |-> 200, error |-> "",
                     data |-> rows,
                     pagination |-> Pagination(q.pageNum, q.limitNum, total)]
  /\ UNCHANGED <<reservations, creneaux, colis, nextReservationId, nextCreneauId,
                 nextColisId>>

\* SELECT COUNT(*) FROM colis WHERE creneau_id = id
ColisCountOf(id) == Cardinality({i \in DOMAIN colis : colis[i].creneau_id = Some(id)})

\* Mutant of the deletion guard: the count is not looked at.
ColisAssociesJamais(id) == FALSE

\* if (parseInt(colisResult.rows[0].count) > 0): packages reference the slot.
ColisAssocies(id) == ColisCountOf(id) > 0

\* DELETE /api/creneaux/:id, up to the await of the count.

DeleteCreneauCheck(idOk, id) ==
  /\ UNCHANGED <<reservations, creneaux, colis, nextReservationId, nextCreneauId,
                 nextColisId>>
  /\ IF ~idOk
       THEN /\ Reply("DELETE creneaux", 400, "ID invalide", <<>>)
            /\ UNCHANGED inflight
     ELSE IF ColisAssocies(id)
       THEN /\ Reply("DELETE creneaux", 400, "Impossible de supprimer le creneau: des colis y sont associes", <<>>)
            /\ UNCHANGED inflight
     ELSE /\ Suspend([op |-> "deleteCreneau", id |-> id])
          /\ UNCHANGED response

\* DELETE /api/creneaux/:id, from the await of the count on:
\* DELETE FROM creneaux_expedition WHERE id = id RETURNING *
DeleteCreneauExec(k) ==
  /\ k.op = "deleteCreneau"
  /\ Resume(k)
  /\ UNCHANGED <<reservations, colis, nextReservationId, nextCreneauId, nextColisId>>
  /\ LET id == k.id
     IN IF id \notin DOMAIN creneaux
          THEN /\ Reply("DELETE creneaux", 404, "Creneau non trouve", <<>>)
               /\ UNCHANGED creneaux
        ELSE /\ creneaux' = [i \in DOMAIN creneaux \ {id} |-> creneaux[i]]
             /\ Reply("DELETE creneaux", 200, "", <<creneaux[id]>>)

\* =================================================================== colis
\* nom_expediteur stands for the six required text columns (nom, telephone
\* and adresse of the sender and of the recipient).  type_colis and
\* methode_paiement are validated like statut and are not followed.
\* numero_suivi is a key of the body that is in no allowed-field list.
validStatus == {"en_attente", "en_transit", "livre"}

\* Mutant of the allowed fields: the tracking code is writable.
ColisAllowedFieldsSuivi ==
  {"creneau_id", "nom_expediteur", "poids", "statut", "numero_suivi"}

ColisAllowedFields == {"creneau_id", "nom_expediteur", "poids", "statut"}

\* The column default of colis.statut: the INSERT does not name the column.
StatutParDefaut == "en_attente"

\* 'COL' + Date.now() + Math.random().toString(36).substr(2, 9).toUpperCase()
\* now is the clock reading and rnd the characters taken from the random number
\* (none to nine of them); the three parts are concatenated.
NumeroSuivi(now, rnd) == <<"C", "O", "L">> \o StringOf(now) \o rnd

ColisMissing(p) == ~TruthyStr(p.nom_expediteur) \/ ~TruthyNum(p.poids)

\* The validation of POST /api/colis before the capacity check.
ColisError(p) ==
  IF ColisMissing(p) THEN "Champ obligatoire manquant"
  ELSE IF LeqZero(p.poids) THEN "Le poids doit etre superieur a 0"
  ELSE ""

\* Mutants of the capacity test: a strict comparison, and no test at all.
CreneauPleinStrict(current_usage, capacite_max) == current_usage > capacite_max
CreneauPleinJamais(current_usage, capacite_max) == FALSE

\* if (current_usage >= capacite_max): the slot is full.
CreneauPlein(current_usage, capacite_max) == current_usage >= capacite_max

\* Mutant of the insert: a tracking code supplied in the body is stored.
InsertColisSuiviClient(p, now, rnd) ==
  /\ nextColisId <= MaxColisId
  /\ LET row == [id |-> nextColisId,
                 creneau_id |-> p.creneau_id,
                 numero_suivi |-> IF p.numero_suivi # None THEN p.numero_suivi[1]
                                  ELSE NumeroSuivi(now, rnd),
                 nom_expediteur |-> p.nom_expediteur[1],
                 poids |-> p.poids[1],
                 statut |-> StatutParDefaut]
     IN /\ colis' = colis @@ (nextColisId :> row)
        /\ Reply("POST colis", 201, "", <<row>>)
  /\ nextColisId' = nextColisId + 1

\* INSERT INTO colis (...) VALUES (...) RETURNING *
InsertColis(p, now, rnd) ==
  /\ nextColisId <= MaxColisId
  /\ LET row == [id |-> nextColisId,
                 creneau_id |-> p.creneau_id,
                 numero_suivi |-> NumeroSuivi(now, rnd),
                 nom_expediteur |-> p.nom_expediteur[1],
                 poids |-> p.poids[1],
                 statut |-> StatutParDefaut]
     IN /\ colis' = colis @@ (nextColisId :> row)
        /\ Reply("POST colis", 201, "", <<row>>)
  /\ nextColisId' = nextColisId + 1

\* POST /api/colis, up to the await of the capacity query.  Without a slot
\* reference the handler runs its only statement, the INSERT, at once.
PostColisCheck(p, now, rnd) ==
  /\ UNCHANGED <<reservations, creneaux, nextReservationId, nextCreneauId>>
  /\ IF ColisError(p) # ""
       THEN /\ Reply("POST colis", 400, ColisError(p), <<>>)
            /\ UNCHANGED <<colis, nextColisId, inflight>>
     ELSE IF ~TruthyNum(p.creneau_id)
       THEN /\ InsertColis(p, now, rnd)
            /\ UNCHANGED inflight
     ELSE IF p.creneau_id[1] \notin CreneauxJoints
       THEN /\ Reply("POST colis", 400, "Creneau specifie introuvable", <<>>)
            /\ UNCHANGED <<colis, nextColisId, inflight>>
     ELSE IF CreneauPlein(CountColisId(LeftJoinColis(p.creneau_id[1])),
                          creneaux[p.creneau_id[1]].capacite_max)
       THEN /\ Reply("POST colis", 400, "Le creneau a atteint sa capacite maximale", <<>>)
            /\ UNCHANGED <<colis, nextColisId, inflight>>
     ELSE /\ Suspend([op |-> "postColis", body |-> p])
          /\ UNCHANGED <<colis, nextColisId, response>>

\* Mutant of the insert: the capacity is read again in the statement that
\* inserts, and a full slot is refused.
PostColisInsertAtomique(k, now, rnd) ==
  /\ k.op = "postColis"
  /\ Resume(k)
  /\ UNCHANGED <<reservations, creneaux, nextReservationId, nextCreneauId>>
  /\ IF CreneauPlein(CountColisId(LeftJoinColis(k.body.creneau_id[1])),
                     creneaux[k.body.creneau_id[1]].capacite_max)
       THEN /\ Reply("POST colis", 400, "Le creneau a atteint sa capacite maximale", <<>>)
            /\ UNCHANGED <<colis, nextColisId>>
       ELSE InsertColis(k.body, now, rnd)

\* POST /api/colis, from the await of the capacity query on.
PostColisInsert(k, now, rnd) ==
  /\ k.op = "postColis"
  /\ Resume(k)
  /\ InsertColis(k.body, now, rnd)
  /\ UNCHANGED <<reservations, creneaux, nextReservationId, nextCreneauId>>

\* WHERE c.numero_suivi = $1
SuiviRows(numero_suivi) == {i \in DOMAIN colis : colis[i].numero_suivi = numero_suivi}

\* GET /api/colis/suivi/:numero_suivi: the answer is rows[0] of a query without
\* ORDER BY, any one of the rows that carry the code.
GetSuivi(numero_suivi) ==
  /\ UNCHANGED <<reservations, creneaux, colis, nextReservationId, nextCreneauId,
                 nextColisId, inflight>>
  /\ IF numero_suivi = <<>>
       THEN Reply("GET suivi", 400, "Numero de suivi requis", <<>>)
     ELSE IF SuiviRows(numero_suivi) = {}
       THEN Reply("GET suivi", 404, "Colis non trouve", <<>>)
     ELSE \E i \in SuiviRows(numero_suivi) :
            Reply("GET suivi", 200, "", <<ColisAvecCreneau(i)>>)

\* The validation of PUT /api/colis/:id: "" when the payload passes.
PutColisError(p) ==
  IF ColisMissing(p) THEN "Champ obligatoire manquant"
  ELSE IF LeqZero(p.poids) THEN "Le poids doit etre superieur a 0"
  ELSE IF TruthyStr(p.statut) /\ p.statut[1] \notin validStatus THEN "Statut invalide"
  ELSE ""

\* Mutant of the full update: a payload without statut keeps the stored status.
PutColisGardeStatut(idOk, id, p) ==
  /\ UNCHANGED <<reservations, creneaux, nextReservationId, nextCreneauId,
                 nextColisId, inflight>>
  /\ IF ~idOk \/ PutColisError(p) # "" \/ id \notin DOMAIN colis
       THEN /\ Reply("PUT colis", 400, "refus", <<>>)
            /\ UNCHANGED colis
     ELSE LET row == [colis[id] EXCEPT
                        !.creneau_id = p.creneau_id,
                        !.nom_expediteur = p.nom_expediteur[1],
                        !.poids = p.poids[1],
                        !.statut = IF TruthyStr(p.statut) THEN p.statut[1] ELSE @]
          IN /\ colis' = [colis EXCEPT ![id] = row]
             /\ Reply("PUT colis", 200, "", <<row>>)

\* Mutant of the full update: the statement also sets numero_suivi.
PutColisSuivi(idOk, id, p) ==
  /\ UNCHANGED <<reservations, creneaux, nextReservationId, nextCreneauId,
                 nextColisId, inflight>>
  /\ IF ~idOk \/ PutColisError(p) # "" \/ id \notin DOMAIN colis
       THEN /\ Reply("PUT colis", 400, "refus", <<>>)
            /\ UNCHANGED colis
     ELSE LET row == [colis[id] EXCEPT
                        !.creneau_id = p.creneau_id,
                        !.nom_expediteur = p.nom_expediteur[1],
                        !.poids = p.poids[1],
                        !.numero_suivi = IF p.numero_suivi = None THEN @
                                         ELSE p.numero_suivi[1],
                        !.statut = IF TruthyStr(p.statut) THEN p.statut[1]
                                                          ELSE "en_attente"]
          IN /\ colis' = [colis EXCEPT ![id] = row]
             /\ Reply("PUT colis", 200, "", <<row>>)

\* PUT /api/colis/:id
PutColis(idOk, id, p) ==
  /\ UNCHANGED <<reservations, creneaux, nextReservationId, nextCreneauId,
                 nextColisId, inflight>>
  /\ IF ~idOk
       THEN /\ Reply("PUT colis", 400, "ID invalide", <<>>)
            /\ UNCHANGED colis
     ELSE IF PutColisError(p) # ""
       THEN /\ Reply("PUT colis", 400, PutColisError(p), <<>>)
            /\ UNCHANGED colis
     ELSE IF id \notin DOMAIN colis
       THEN /\ Reply("PUT colis", 404, "Colis non trouve", <<>>)
            /\ UNCHANGED colis
     ELSE LET row == [colis[id] EXCEPT
                        !.creneau_id = p.creneau_id,
                        !.nom_expediteur = p.nom_expediteur[1],
                        !.poids = p.poids[1],
                        !.statut = IF TruthyStr(p.statut) THEN p.statut[1]
                                                          ELSE "en_attente"]
          IN /\ colis' = [colis EXCEPT ![id] = row]
             /\ Reply("PUT colis", 200, "", <<row>>)

\* Mutant of the PATCH validation: a slot reference to a full slot is refused.
PatchColisErrorCapacite(p) ==
  IF Keys(p) = {} THEN "Aucun champ a modifier"
  ELSE IF Keys(p) \cap ColisAllowedFields = {} THEN "Aucun champ valide a modifier"
  ELSE IF TruthyNum(p.poids) /\ p.poids[1] <= 0 THEN "Le poids doit etre superieur a 0"
  ELSE IF TruthyStr(p.statut) /\ p.statut[1] \notin validStatus THEN "Statut invalide"
  ELSE IF /\ TruthyNum(p.creneau_id)
          /\ p.creneau_id[1] \in CreneauxJoints
          /\ CreneauPlein(CountColisId(LeftJoinColis(p.creneau_id[1])),
                          creneaux[p.creneau_id[1]].capacite_max)
    THEN "Le creneau a atteint sa capacite maximale"
  ELSE ""

\* The validation of PATCH /api/colis/:id: "" when the payload passes.
PatchColisError(p) ==
  IF Keys(p) = {} THEN "Aucun champ a modifier"
  ELSE IF Keys(p) \cap ColisAllowedFields = {} THEN "Aucun champ valide a modifier"
  ELSE IF TruthyNum(p.poids) /\ p.poids[1] <= 0 THEN "Le poids doit etre superieur a 0"
  ELSE IF TruthyStr(p.statut) /\ p.statut[1] \notin validStatus THEN "Statut invalide"
  ELSE ""

\* PATCH /api/colis/:id
PatchColis(idOk, id, p) ==
  /\ UNCHANGED <<reservations, creneaux, nextReservationId, nextCreneauId,
                 nextColisId, inflight>>
  /\ IF ~idOk
       THEN /\ Reply("PATCH colis", 400, "ID invalide", <<>>)
            /\ UNCHANGED colis
     ELSE IF PatchColisError(p) # ""
       THEN /\ Reply("PATCH colis", 400, PatchColisError(p), <<>>)
            /\ UNCHANGED colis
     ELSE IF id \notin DOMAIN colis
       THEN /\ Reply("PATCH colis", 404, "Colis non trouve", <<>>)
            /\ UNCHANGED colis
     ELSE LET fieldsToUpdate == Keys(p) \cap ColisAllowedFields
              row == SetCols(colis[id], p, fieldsToUpdate)
          IN /\ colis' = [colis EXCEPT ![id] = row]
             /\ Reply("PATCH colis", 200, "", <<row>>)

\* Mutant of the deletion: a package that references a slot is kept.
DeleteColisSansCreneau(idOk, id) ==
  /\ UNCHANGED <<reservations, creneaux, nextReservationId, nextCreneauId,
                 nextColisId, inflight>>
  /\ IF ~idOk \/ id \notin DOMAIN colis \/ colis[id].creneau_id # None
       THEN /\ Reply("DELETE colis", 400, "refus", <<>>)
            /\ UNCHANGED colis
     ELSE /\ colis' = [i \in DOMAIN colis \ {id} |-> colis[i]]
          /\ Reply("DELETE colis", 200, "", <<colis[id]>>)

\* DELETE /api/colis/:id
DeleteColis(idOk, id) ==
  /\ UNCHANGED <<reservations, creneaux, nextReservationId, nextCreneauId,
                 nextColisId, inflight>>
  /\ IF ~idOk
       THEN /\ Reply("DELETE colis", 400, "ID invalide", <<>>)
            /\ UNCHANGED colis
     ELSE IF id \notin DOMAIN colis
       THEN /\ Reply("DELETE colis", 404, "Colis non trouve", <<>>)
            /\ UNCHANGED colis
     ELSE /\ colis' = [i \in DOMAIN colis \ {id} |-> colis[i]]
          /\ Reply("DELETE colis", 200, "", <<colis[id]>>)

\* ================================================================== inputs
\* The :id of a path: <<FALSE, _>> is an id parseInt turns into NaN, and
\* <<TRUE, i>> the integer i.
IdParams(max) == {<<FALSE, 1>>} \cup {<<TRUE, i>> : i \in 1..max}

TextIn == {None, Some("x")}
InconnuIn == {None, Some("x")}

PassagersIn == {None, Some(-1), Some(0), Some(1), Some(2)}
ClasseIn == {None, Some("Economique"), Some("Affaires"), Some("Invalide")}
ReservationPayloads ==
  [destination : TextIn, nombre_passagers : PassagersIn, classe : ClasseIn,
   inconnu : InconnuIn]
ReservationIds == IdParams(MaxReservationId)

CapaciteIn == {None, Some(-1), Some(0), Some(1), Some(2)}
PositifIn == {None, Some(0), Some(1)}
TransportIn == {None, Some("express"), Some("avion")}
\* every payload of the slot handlers
CreneauPayloads ==
  [lieu_depart : TextIn, capacite_max : CapaciteIn, frais_par_kg : PositifIn,
   poids_max_colis : PositifIn, type_transport : TransportIn, inconnu : {None}]
\* slot payloads that differ in the capacity only
CreneauPayloadsCap ==
  [lieu_depart : {Some("x")}, capacite_max : {Some(0), Some(1), Some(2)},
   frais_par_kg : {Some(1)}, poids_max_colis : {Some(1)}, type_transport : {None},
   inconnu : {None}]
CreneauIds == IdParams(MaxCreneauId)

CreneauRefIn == {None} \cup {Some(i) : i \in 1..MaxCreneauId}
PoidsIn == {None, Some(-1), Some(0), Some(1)}
StatutIn == {None, Some("en_transit"), Some("livre"), Some("perdu")}
SuiviIn == {None, Some(<<"C", "O", "L", "1", "A">>)}
\* every payload of the package handlers
ColisPayloads ==
  [creneau_id : CreneauRefIn, nom_expediteur : TextIn, poids : PoidsIn,
   statut : StatutIn, numero_suivi : SuiviIn]
\* package payloads that differ in the slot reference and the weight only
ColisPayloadsRef ==
  [creneau_id : CreneauRefIn, nom_expediteur : {Some("x")}, poids : {Some(-1), Some(1)},
   statut : {None}, numero_suivi : {None}]
\* package payloads without slot reference: the creation has no await
ColisPayloadsSansCreneau ==
  [creneau_id : {None}, nom_expediteur : {Some("x")}, poids : {Some(-1), Some(1)},
   statut : {None}, numero_suivi : {None}]
ColisIds == IdParams(MaxColisId)

\* PATCH payloads with and without keys outside the allowed fields
ReservationPatchPayloads ==
  [destination : TextIn, nombre_passagers : {None, Some(2)},
   classe : {None, Some("Affaires")}, inconnu : InconnuIn]
ReservationPayloadsOk ==
  [destination : {Some("x")}, nombre_passagers : {Some(0), Some(1)},
   classe : {Some("Economique")}, inconnu : {None}]
CreneauPatchPayloads ==
  [lieu_depart : TextIn, capacite_max : {None, Some(2)}, frais_par_kg : {None},
   poids_max_colis : {None}, type_transport : {None, Some("express")},
   inconnu : InconnuIn]
ColisPatchPayloads ==
  [creneau_id : {None}, nom_expediteur : TextIn, poids : {None, Some(2)},
   statut : {None, Some("livre")}, numero_suivi : SuiviIn]

PageIn == {None, Some(<<"0">>), Some(<<"2">>), Some(<<"a">>)}
LimitIn == {None, Some(<<"0">>), Some(<<"1">>), Some(<<"5", "0", "0">>)}

\* Clock readings and random suffixes of the specifications that follow the
\* tracking codes, and the codes a lookup asks for.
NowIn == {1, 12}
RndIn == {<<>>, <<"2">>, <<"A">>}
SuiviCodes == {NumeroSuivi(now, rnd) : now \in NowIn, rnd \in RndIn} \cup {<<"X">>}
\* package payloads with and without a tracking code and a status
ColisPayloadsSuivi ==
  [creneau_id : {None}, nom_expediteur : {Some("x")}, poids : {Some(1)},
   statut : {None, Some("livre")}, numero_suivi : SuiviIn]

\* update payloads that all carry a tracking code, one that no creation generates
SuiviClient == <<"C", "O", "L", "9">>
ColisUpdatesSuivi ==
  [creneau_id : {None}, nom_expediteur : {None, Some("y")}, poids : {Some(1)},
   statut : {None, Some("livre")}, numero_suivi : {Some(SuiviClient)}]

\* update payloads that differ in the status only: absent, empty, each value of
\* the enum, and a value outside it
StatutUpdateIn ==
  {None, Some(""), Some("en_attente"), Some("en_transit"), Some("livre"), Some("perdu")}
ColisPayloadsStatut ==
  [creneau_id : {None}, nom_expediteur : {Some("x")}, poids : {Some(1)},
   statut : StatutUpdateIn, numero_suivi : {None}]

\* The ids of a delete-many body: absent, or an array of at most two entries
\* among two integers, a word and an integer followed by a letter.
IdEntryIn == {<<"1">>, <<"2">>, <<"a">>, <<"1", "a">>}
IdsIn ==
  {None, Some(<<>>)} \cup {Some(<<e>>) : e \in IdEntryIn}
    \cup {Some(<<e, f>>) : e \in IdEntryIn, f \in IdEntryIn}

\* The clock read by Date.now() advances with every package inserted, and the
\* random suffix is "A", in the specifications that do not follow tracking codes.
Now == {nextColisId}
Rnd == {<<"A">>}

\* ========================================================== specifications
\* Slots and packages, requests running concurrently.
Next ==
  \/ \E p \in CreneauPayloadsCap : CreateCreneau(p)
  \/ \E p \in ColisPayloadsRef, now \in Now, rnd \in Rnd :
       PostColisCheck(p, now, rnd)
  \/ \E k \in BagToSet(inflight), now \in Now, rnd \in Rnd : PostColisInsert(k, now, rnd)
  \/ \E i \in ColisIds, p \in ColisPayloadsRef : PutColis(i[1], i[2], p)
  \/ \E i \in ColisIds, p \in ColisPayloadsRef : PatchColis(i[1], i[2], p)
  \/ \E i \in ColisIds : DeleteColis(i[1], i[2])
  \/ \E i \in CreneauIds : DeleteCreneauCheck(i[1], i[2])
  \/ \E k \in BagToSet(inflight) : DeleteCreneauExec(k)

Spec == Init /\ [][Next]_vars

\* Slot creation, package creation and package deletion, one request at a time.
NextSeq ==
  \/ Quiet /\ \E p \in CreneauPayloadsCap : CreateCreneau(p)
  \/ Quiet /\ \E p \in ColisPayloadsRef, now \in Now, rnd \in Rnd :
       PostColisCheck(p, now, rnd)
  \/ \E k \in BagToSet(inflight), now \in Now, rnd \in Rnd : PostColisInsert(k, now, rnd)
  \/ Quiet /\ \E i \in ColisIds : DeleteColis(i[1], i[2])

SpecSeq == Init /\ [][NextSeq]_vars

\* Slot creation and package creation, requests running concurrently.
NextRace ==
  \/ \E p \in CreneauPayloadsCap : CreateCreneau(p)
  \/ \E p \in ColisPayloadsRef, now \in Now, rnd \in Rnd :
       PostColisCheck(p, now, rnd)
  \/ \E k \in BagToSet(inflight), now \in Now, rnd \in Rnd : PostColisInsert(k, now, rnd)

SpecRace == Init /\ [][NextRace]_vars

\* Slot creation, package creation and package updates, one request at a time.
NextUpd ==
  \/ Quiet /\ \E p \in CreneauPayloadsCap : CreateCreneau(p)
  \/ Quiet /\ \E p \in ColisPayloadsRef, now \in Now, rnd \in Rnd :
       PostColisCheck(p, now, rnd)
  \/ \E k \in BagToSet(inflight), now \in Now, rnd \in Rnd : PostColisInsert(k, now, rnd)
  \/ Quiet /\ \E i \in ColisIds, p \in ColisPayloadsRef : PutColis(i[1], i[2], p)
  \/ Quiet /\ \E i \in ColisIds, p \in ColisPayloadsRef : PatchColis(i[1], i[2], p)

SpecUpd == Init /\ [][NextUpd]_vars

\* The reservation handlers.
NextRes ==
  \/ \E p \in ReservationPayloads : CreateReservation(p)
  \/ \E i \in ReservationIds, p \in ReservationPayloads : PutReservation(i[1], i[2], p)
  \/ \E i \in ReservationIds, p \in ReservationPayloads : PatchReservation(i[1], i[2], p)
  \/ \E i \in ReservationIds : DeleteReservation(i[1], i[2])

SpecRes == Init /\ [][NextRes]_vars

\* The slot handlers that write, over every payload.
NextCren ==
  \/ \E p \in CreneauPayloads : CreateCreneau(p)
  \/ \E i \in CreneauIds, p \in CreneauPayloads : PutCreneau(i[1], i[2], p)
  \/ \E i \in CreneauIds, p \in CreneauPayloads : PatchCreneau(i[1], i[2], p)

SpecCren == Init /\ [][NextCren]_vars

\* Slot reads next to package creation and deletion, one request at a time.
NextRead ==
  \/ Quiet /\ \E p \in CreneauPayloadsCap : CreateCreneau(p)
  \/ Quiet /\ \E p \in ColisPayloadsRef, now \in Now, rnd \in Rnd :
       PostColisCheck(p, now, rnd)
  \/ \E k \in BagToSet(inflight), now \in Now, rnd \in Rnd : PostColisInsert(k, now, rnd)
  \/ Quiet /\ \E i \in ColisIds : DeleteColis(i[1], i[2])
  \/ Quiet /\ \E i \in CreneauIds : GetCreneau(i[1], i[2])
  \/ Quiet /\ \E page \in PageIn, limit \in LimitIn, first \in {"rows", "count"} :
       ListCreneauxStart(page, limit, first)
  \/ \E q \in BagToSet(inflight) : ListCreneauxEnd(q)

\* Creation and PATCH of the three entities, over a store of at most MaxRows rows.
TotalRows ==
  Cardinality(DOMAIN reservations) + Cardinality(DOMAIN creneaux)
    + Cardinality(DOMAIN colis)

NextPatch ==
  \/ TotalRows < MaxRows /\ \E p \in ReservationPayloadsOk : CreateReservation(p)
  \/ TotalRows < MaxRows /\ \E p \in CreneauPayloadsCap : CreateCreneau(p)
  \/ TotalRows < MaxRows
       /\ \E p \in ColisPayloadsSansCreneau, now \in Now, rnd \in Rnd :
            PostColisCheck(p, now, rnd)
  \/ \E i \in ReservationIds, p \in ReservationPatchPayloads :
       PatchReservation(i[1], i[2], p)
  \/ \E i \in CreneauIds, p \in CreneauPatchPayloads : PatchCreneau(i[1], i[2], p)
  \/ \E i \in ColisIds, p \in ColisPatchPayloads : PatchColis(i[1], i[2], p)

SpecPatch == Init /\ [][NextPatch]_vars

\* Slot deletion next to package creation and deletion, requests running
\* concurrently.
NextDel ==
  \/ \E p \in CreneauPayloadsCap : CreateCreneau(p)
  \/ \E p \in ColisPayloadsRef, now \in Now, rnd \in Rnd :
       PostColisCheck(p, now, rnd)
  \/ \E k \in BagToSet(inflight), now \in Now, rnd \in Rnd : PostColisInsert(k, now, rnd)
  \/ \E i \in ColisIds : DeleteColis(i[1], i[2])
  \/ \E i \in CreneauIds : DeleteCreneauCheck(i[1], i[2])
  \/ \E k \in BagToSet(inflight) : DeleteCreneauExec(k)

SpecDel == Init /\ [][NextDel]_vars

SpecRead == Init /\ [][NextRead]_vars

\* The three list handlers next to creations, one request at a time.
NextList ==
  \/ Quiet /\ \E p \in ReservationPayloadsOk : CreateReservation(p)
  \/ Quiet /\ \E p \in CreneauPayloadsCap : CreateCreneau(p)
  \/ Quiet /\ \E p \in ColisPayloadsSansCreneau, now \in Now, rnd \in Rnd :
       PostColisCheck(p, now, rnd)
  \/ Quiet /\ \E page \in PageIn, limit \in LimitIn, first \in {"rows", "count"} :
       ListReservationsStart(page, limit, first)
  \/ \E q \in BagToSet(inflight) : ListReservationsEnd(q)
  \/ Quiet /\ \E page \in PageIn, limit \in LimitIn, first \in {"rows", "count"} :
       ListCreneauxStart(page, limit, first)
  \/ \E q \in BagToSet(inflight) : ListCreneauxEnd(q)
  \/ Quiet /\ \E page \in PageIn, limit \in LimitIn, first \in {"rows", "count"} :
       ListColisStart(page, limit, first)
  \/ \E q \in BagToSet(inflight) : ListColisEnd(q)

SpecList == Init /\ [][NextList]_vars

\* Package creation and lookup by tracking code.
NextSuivi ==
  \/ \E p \in ColisPayloadsSuivi, now \in NowIn, rnd \in RndIn :
       PostColisCheck(p, now, rnd)
  \/ \E numero_suivi \in SuiviCodes : GetSuivi(numero_suivi)

SpecSuivi == Init /\ [][NextSuivi]_vars

\* Package creation and updates whose payload carries a tracking code.
NextSuiviUpd ==
  \/ \E p \in ColisPayloadsSuivi, now \in Now, rnd \in Rnd :
       PostColisCheck(p, now, rnd)
  \/ \E i \in ColisIds, p \in ColisUpdatesSuivi : PutColis(i[1], i[2], p)
  \/ \E i \in ColisIds, p \in ColisUpdatesSuivi : PatchColis(i[1], i[2], p)

SpecSuiviUpd == Init /\ [][NextSuiviUpd]_vars

\* Package creation and updates of the status.
NextStatut ==
  \/ \E p \in ColisPayloadsSansCreneau, now \in Now, rnd \in Rnd :
       PostColisCheck(p, now, rnd)
  \/ \E i \in ColisIds, p \in ColisPayloadsStatut : PutColis(i[1], i[2], p)
  \/ \E i \in ColisIds, p \in ColisPayloadsStatut : PatchColis(i[1], i[2], p)

SpecStatut == Init /\ [][NextStatut]_vars

\* Reservation creation and deletion, single and multiple.
NextMany ==
  \/ \E p \in ReservationPayloads : CreateReservation(p)
  \/ \E i \in ReservationIds : DeleteReservation(i[1], i[2])
  \/ \E ids \in IdsIn : DeleteManyReservations(ids)

SpecMany == Init /\ [][NextMany]_vars

\* ================================================================== claims
\* Measures of the store used by the claims, written without the queries of
\* the handlers.
Referencing(id) == {c \in DOMAIN colis : colis[c].creneau_id = Some(id)}
Usage(id) == Cardinality(Referencing(id))
ErrCapacite == "Le creneau a atteint sa capacite maximale"
ErrColisAssocies == "Impossible de supprimer le creneau: des colis y sont associes"

\* The payload names a slot that exists and holds at least capacite_max packages.
SlotFullFor(p) ==
  /\ TruthyNum(p.creneau_id)
  /\ p.creneau_id[1] \in DOMAIN creneaux
  /\ Usage(p.creneau_id[1]) >= creneaux[p.creneau_id[1]].capacite_max

\* C1: a package creation that names a slot whose package count has reached
\* capacite_max is answered 400, with the capacity error when the rest of the
\* payload is valid, and it inserts no package: the table colis is unchanged
\* and the request ends there.
C1_FullSlotRejected ==
  [][\A p \in ColisPayloadsRef, now \in Now, rnd \in Rnd :
       (SlotFullFor(p) /\ PostColisCheck(p, now, rnd)) =>
         /\ colis' = colis
         /\ nextColisId' = nextColisId
         /\ inflight' = inflight
         /\ response'.status = 400
         /\ (p.nom_expediteur = Some("x") /\ p.poids = Some(1)
               => response'.error = ErrCapacite)]_vars

\* C1 witness: a creation was just refused with the capacity error and the
\* slot it named is full.
C1_Witness ==
  /\ response.op = "POST colis"
  /\ response.status = 400
  /\ response.error = ErrCapacite
  /\ \E id \in DOMAIN creneaux : Usage(id) >= creneaux[id].capacite_max

\* C2: with one request at a time and only slot creation, package creation
\* and package deletion, no slot ever holds more packages than its
\* capacite_max; on a slot of capacity 1 the creation that follows the first
\* one is refused with the capacity error.
C2_CapacityRespected ==
  /\ \A id \in DOMAIN creneaux : Usage(id) <= creneaux[id].capacite_max
  /\ (response.op = "POST colis" /\ response.error = ErrCapacite) =>
       \E id \in DOMAIN creneaux : Usage(id) = creneaux[id].capacite_max

\* C2 witness: a slot of capacity 1 holds the one package created first, and
\* the second creation was just refused.
C2_Witness ==
  /\ response.op = "POST colis"
  /\ response.status = 400
  /\ response.error = ErrCapacite
  /\ \E id \in DOMAIN creneaux : creneaux[id].capacite_max = 1 /\ Usage(id) = 1

\* A row returned for a slot carries the slot's current package count and
\* capacite_max minus that count.
UsageOk(row) ==
  /\ row.id \in DOMAIN creneaux
  /\ row.capacite_max = creneaux[row.id].capacite_max
  /\ row.nombre_colis_actuels = Usage(row.id)
  /\ row.places_restantes = creneaux[row.id].capacite_max - Usage(row.id)

\* C3: get-by-id of an existing slot returns that slot, and the list returns
\* the slots of the requested page, each with nombre_colis_actuels equal to
\* the number of packages that reference it and places_restantes equal to
\* capacite_max minus that number; a slot without package is returned too.
C3_SlotUsage ==
  [][/\ \A i \in CreneauIds :
          (i[1] /\ i[2] \in DOMAIN creneaux /\ GetCreneau(i[1], i[2])) =>
            /\ response'.status = 200
            /\ Len(response'.data) = 1
            /\ response'.data[1].id = i[2]
            /\ UsageOk(response'.data[1])
     /\ \A q \in BagToSet(inflight) :
          ListCreneauxEnd(q) =>
            LET page == LimitOffset(OrderByIdDesc(DOMAIN creneaux), q.limitNum,
                                    (q.pageNum - 1) * q.limitNum)
            IN /\ Len(response'.data) = Len(page)
               /\ \A n \in 1..Len(page) :
                    /\ response'.data[n].id = page[n]
                    /\ UsageOk(response'.data[n])]_vars

\* C3 witness: the list just returned a slot that no package references, with
\* count 0 and places_restantes equal to capacite_max.
C3_Witness ==
  /\ response.op = "GET creneaux"
  /\ \E n \in 1..Len(response.data) :
       /\ response.data[n].nombre_colis_actuels = 0
       /\ response.data[n].places_restantes = response.data[n].capacite_max
       /\ Referencing(response.data[n].id) = {}

\* C4: a slot deletion that finds a package referencing the slot is answered
\* 400 with the associated-packages error, keeps the slot and the packages
\* as they are, and ends there.
C4_ReferencedSlotKept ==
  [][\A i \in CreneauIds :
       (i[1] /\ Referencing(i[2]) # {} /\ DeleteCreneauCheck(i[1], i[2])) =>
         /\ response'.status = 400
         /\ response'.error = ErrColisAssocies
         /\ creneaux' = creneaux
         /\ colis' = colis
         /\ inflight' = inflight]_vars

\* C4 witness: a deletion was just refused and the slot and a package that
\* references it are both there.
C4_Witness ==
  /\ response.op = "DELETE creneaux"
  /\ response.status = 400
  /\ response.error = ErrColisAssocies
  /\ \E id \in DOMAIN creneaux : Referencing(id) # {}

\* C5: a creation that read a count below capacite_max inserts its package
\* when it resumes, whatever the count has become in between: the step that
\* ends a suspended creation adds a package for the slot it named and answers
\* 201.  (Two creations that both read one remaining place so both insert.)
C5_InsertAfterCheckUnconditional ==
  [][\A k \in BagToSet(inflight) :
       (k.op = "postColis" /\ inflight' = inflight (-) SetToBag({k})) =>
         /\ DOMAIN colis' = DOMAIN colis \cup {nextColisId}
         /\ nextColisId \notin DOMAIN colis
         /\ colis'[nextColisId].creneau_id = k.body.creneau_id
         /\ response'.status = 201]_vars

\* C5 witness: with creations alone, a slot holds more packages than its
\* capacite_max.
C5_Witness ==
  \E id \in DOMAIN creneaux : Usage(id) > creneaux[id].capacite_max

ReservationPayloadsVides ==
  [destination : {None}, nombre_passagers : {None}, classe : {None},
   inconnu : InconnuIn]
CreneauPayloadsVides ==
  [lieu_depart : {None}, capacite_max : {None}, frais_par_kg : {None},
   poids_max_colis : {None}, type_transport : {None}, inconnu : InconnuIn]
ColisPayloadsVides ==
  [creneau_id : {None}, nom_expediteur : {None}, poids : {None}, statut : {None},
   numero_suivi : SuiviIn]

\* The PATCH was refused and wrote nothing.
RefusedUnchanged ==
  /\ response'.status = 400
  /\ reservations' = reservations
  /\ creneaux' = creneaux
  /\ colis' = colis

\* C7: for each of the three entities, a PATCH whose payload is empty or
\* holds only keys outside the allowed fields is answered 400 and writes
\* nothing.
C7_EmptyPatchRefused ==
  [][/\ \A i \in ReservationIds, p \in ReservationPayloadsVides :
          PatchReservation(i[1], i[2], p) => RefusedUnchanged
     /\ \A i \in CreneauIds, p \in CreneauPayloadsVides :
          PatchCreneau(i[1], i[2], p) => RefusedUnchanged
     /\ \A i \in ColisIds, p \in ColisPayloadsVides :
          PatchColis(i[1], i[2], p) => RefusedUnchanged]_vars

\* C7 witness: a PATCH of an existing package that held only a key outside
\* the allowed fields was just refused.
C7_Witness ==
  /\ response.op = "PATCH colis"
  /\ response.status = 400
  /\ response.error = "Aucun champ valide a modifier"
  /\ colis # <<>>

\* C8: every stored reservation has nombre_passagers > 0 and a classe of the
\* enum, whatever creations, full updates and partial updates were made.
C8_ReservationsValid ==
  \A id \in DOMAIN reservations :
    /\ reservations[id].nombre_passagers > 0
    /\ reservations[id].classe \in {"Economique", "Affaires", "Premiere"}

\* C9: every stored slot has capacite_max > 0, frais_par_kg > 0 and
\* poids_max_colis > 0, whatever creations, full updates and partial updates
\* were made.
C9_CreneauxPositive ==
  \A id \in DOMAIN creneaux :
    /\ creneaux[id].capacite_max > 0
    /\ creneaux[id].frais_par_kg > 0
    /\ creneaux[id].poids_max_colis > 0

\* The payload moves package id into a slot that already holds capacite_max
\* packages, and its other fields are valid.
MovesIntoFullSlot(id, p) ==
  /\ id \in DOMAIN colis
  /\ SlotFullFor(p)
  /\ colis[id].creneau_id # p.creneau_id
  /\ Usage(p.creneau_id[1]) = creneaux[p.creneau_id[1]].capacite_max
  /\ p.statut = None

\* C10: a PUT or a PATCH that moves a package into a slot whose package count
\* equals capacite_max is answered 200 and stores the slot reference, so the
\* slot then holds more packages than capacite_max.
C10_UpdateIgnoresCapacity ==
  [][\A i \in ColisIds, p \in ColisPayloadsRef :
       /\ (/\ i[1] /\ MovesIntoFullSlot(i[2], p)
           /\ p.poids = Some(1) /\ p.nom_expediteur = Some("x")
           /\ PutColis(i[1], i[2], p)) =>
            /\ response'.status = 200
            /\ colis'[i[2]].creneau_id = p.creneau_id
            /\ Usage(p.creneau_id[1])' > creneaux[p.creneau_id[1]].capacite_max
       /\ (/\ i[1] /\ MovesIntoFullSlot(i[2], p)
           /\ p.poids = Some(1)
           /\ PatchColis(i[1], i[2], p)) =>
            /\ response'.status = 200
            /\ colis'[i[2]].creneau_id = p.creneau_id
            /\ Usage(p.creneau_id[1])' > creneaux[p.creneau_id[1]].capacite_max]_vars

\* C10 witness: with one request at a time, an update was just accepted and
\* a slot holds more packages than its capacite_max.
C10_Witness ==
  /\ response.op \in {"PUT colis", "PATCH colis"}
  /\ response.status = 200
  /\ \E id \in DOMAIN creneaux : Usage(id) > creneaux[id].capacite_max

\* C11: every list request of the three entities, whatever page and limit it
\* supplies, runs its queries with an effective page of at least 1, an
\* effective limit between 1 and 100 (page=0 gives 1, limit=0 gives 1,
\* limit=500 gives 100) and the offset (page - 1) * limit.
C11_PaginationClamped ==
  [][\A page \in PageIn, limit \in LimitIn, first \in {"rows", "count"} :
       (Quiet /\ (\/ ListReservationsStart(page, limit, first)
                  \/ ListCreneauxStart(page, limit, first)
                  \/ ListColisStart(page, limit, first))) =>
         \E k \in BagToSet(inflight') :
           /\ k.pageNum >= 1
           /\ k.limitNum \in 1..100
           /\ k.offset = (k.pageNum - 1) * k.limitNum
           /\ (page = Some(<<"0">>) => k.pageNum = 1)
           /\ (limit = Some(<<"0">>) => k.limitNum = 1)
           /\ (limit = Some(<<"5", "0", "0">>) => k.limitNum = 100)]_vars

\* The tracking codes held by the store, and whether they are all different.
Codes == {colis[i].numero_suivi : i \in DOMAIN colis}
CodesDistinct(t) == \A i, j \in DOMAIN t : i # j => t[i].numero_suivi # t[j].numero_suivi

C13_SuiviImmutable ==
  [][\A i \in ColisIds, p \in ColisUpdatesSuivi :
       (PutColis(i[1], i[2], p) \/ PatchColis(i[1], i[2], p)) =>
         /\ DOMAIN colis' = DOMAIN colis
         /\ \A c \in DOMAIN colis : colis'[c].numero_suivi = colis[c].numero_suivi]_vars

\* C13 witness: an update whose payload carried a tracking code was accepted
\* and took effect (the sender name it set is stored), and the package still
\* carries a generated code, not the one of the payload.
C13_Witness ==
  /\ response.op \in {"PUT colis", "PATCH colis"}
  /\ response.status = 200
  /\ \E c \in DOMAIN colis :
       /\ response.data[1].id = c
       /\ colis[c].nom_expediteur = "y"
       /\ colis[c].numero_suivi # SuiviClient
       /\ \E now \in 1..MaxColisId, rnd \in Rnd :
            colis[c].numero_suivi = NumeroSuivi(now, rnd)

\* C14: an update of a stored package that sets statut to a value of the enum
\* is accepted and stores that value, whatever the status was; an update that
\* supplies a status outside the enum is refused and changes nothing; after
\* every step each stored status is one of en_attente, en_transit, livre.
\* (An empty statut is read as none supplied in the first two parts.)
C14_StatutClosed ==
  [][/\ \A i \in ColisIds, p \in ColisPayloadsStatut :
          (/\ i[1] /\ i[2] \in DOMAIN colis /\ p.statut \notin {None, Some("")}
           /\ (PutColis(i[1], i[2], p) \/ PatchColis(i[1], i[2], p))) =>
            IF p.statut[1] \in {"en_attente", "en_transit", "livre"}
              THEN response'.status = 200 /\ colis'[i[2]].statut = p.statut[1]
              ELSE response'.status = 400 /\ colis' = colis
     /\ \A c \in DOMAIN colis' :
          colis'[c].statut \in {"en_attente", "en_transit", "livre"}]_vars

\* C18: a full update of a stored package whose payload has no statut stores
\* en_attente whatever the status was, and a partial update whose payload has
\* no statut leaves the stored status as it was.
C18_PutResetsStatut ==
  [][\A i \in ColisIds, p \in ColisPayloadsStatut :
       (i[1] /\ i[2] \in DOMAIN colis /\ p.statut = None) =>
         /\ PutColis(i[1], i[2], p) =>
              response'.status = 200 /\ colis'[i[2]].statut = "en_attente"
         /\ PatchColis(i[1], i[2], p) =>
              response'.status = 200 /\ colis'[i[2]].statut = colis[i[2]].statut]_vars

\* C18 witness: a full update has just been accepted on a package that is
\* now en_attente, next to a package that an update made livre.
C18_Witness ==
  /\ response.op = "PUT colis"
  /\ response.status = 200
  /\ \E c, d \in DOMAIN colis :
       /\ response.data[1].id = c
       /\ colis[c].statut = "en_attente"
       /\ colis[d].statut = "livre"

\* C15: in every reachable state the transport type of every stored slot is
\* one of standard, express, prioritaire (a create or full update without type
\* stores standard, one with a type outside the enum is refused).
C15_TransportInEnum ==
  \A id \in DOMAIN creneaux :
    \E t \in {"standard", "express", "prioritaire"} :
      creneaux[id].type_transport = Some(t)

\* An entry of the array that is an integer: digits only.
IsIntegerEntry(e) == e # <<>> /\ \A k \in 1..Len(e) : IsDigit(e[k])
IntegerEntries(ids) ==
  IF ids = None THEN {}
  ELSE {DigitsValue(ids[1][k], 0) : k \in {j \in 1..Len(ids[1]) : IsIntegerEntry(ids[1][j])}}

\* C16: delete-many removes exactly the stored reservations whose id is among
\* the integer entries of the array and leaves the others unchanged, entries
\* that are no integers being dropped without error; a missing or empty array,
\* or one without integer entry, is answered 400 and nothing is deleted.
C16_DeleteManyExact ==
  [][\A ids \in IdsIn :
       DeleteManyReservations(ids) =>
         IF IntegerEntries(ids) = {}
           THEN response'.status = 400 /\ reservations' = reservations
           ELSE /\ response'.status = 200
                /\ reservations' =
                     [i \in DOMAIN reservations \ IntegerEntries(ids) |-> reservations[i]]]_vars

\* C17: the deletion of a stored package is accepted whatever the state of the
\* slot it references; it removes that package only, writes no slot row and
\* lowers the package count of the referenced slot by exactly one, the count
\* of every other slot staying as it was; and a valid creation that names a
\* slot with room, as a slot that was full is after such a deletion, passes
\* the capacity check.
C17_DeleteFreesPlace ==
  [][/\ \A i \in ColisIds :
          (i[1] /\ i[2] \in DOMAIN colis /\ DeleteColis(i[1], i[2])) =>
            /\ response'.status = 200
            /\ creneaux' = creneaux
            /\ DOMAIN colis' = DOMAIN colis \ {i[2]}
            /\ \A s \in DOMAIN creneaux :
                 Cardinality({c \in DOMAIN colis' : colis'[c].creneau_id = Some(s)})
                   = Usage(s) - (IF colis[i[2]].creneau_id = Some(s) THEN 1 ELSE 0)
     /\ \A p \in ColisPayloadsRef, now \in Now, rnd \in Rnd :
          (/\ Quiet
           /\ p.poids = Some(1)
           /\ p.creneau_id # None
           /\ p.creneau_id[1] \in DOMAIN creneaux
           /\ Usage(p.creneau_id[1]) < creneaux[p.creneau_id[1]].capacite_max
           /\ PostColisCheck(p, now, rnd)) =>
            /\ response' = response
            /\ inflight' # EmptyBag]_vars

\* C17 witness: a deletion has just removed a package that referenced a slot,
\* and that slot, full before, now has exactly one place left.
C17_Witness ==
  /\ response.op = "DELETE colis"
  /\ response.status = 200
  /\ \E s \in DOMAIN creneaux :
       /\ response.data[1].creneau_id = Some(s)
       /\ Usage(s) = creneaux[s].capacite_max - 1


====
